---- MODULE Spec2Model ----
(***************************************************************************)
(* Model of the plan-directory lifecycle manager, scripts/bootstrap.mjs:   *)
(* the files it keeps under plans/ (pointer, plan directories, the two     *)
(* consolidated archives), the .gitignore entry, and the commands new,     *)
(* new --force, resume, status, close, list and help.                      *)
(*                                                                         *)
(* Text is a sequence of tokens.  The characters the code's patterns look  *)
(* at are tokens of their own ("#", " ", "\n", "("); a run of other        *)
(* characters is one token.  Positions are 1-based and "not found" is 0    *)
(* where JavaScript has 0-based positions and -1.                          *)
(***************************************************************************)
EXTENDS Integers, Sequences, FiniteSets, TLC

(***************************************************************************)
(* Bounds                                                                  *)
(***************************************************************************)
MaxPlans == 2
MaxWrites == 1
MaxFaults == 2

(***************************************************************************)
(* String primitives of the host language                                  *)
(***************************************************************************)
NL == "\n"
SP == " "
WhiteSpace == {SP, NL}

Min(S) == CHOOSE x \in S : \A y \in S : x <= y

Max(S) == CHOOSE x \in S : \A y \in S : x >= y

\* s.slice(i) in 1-based positions: the text from position i to the end.
sliceFrom(s, i) == SubSeq(s, i, Len(s))

\* s.slice(0, i) in 1-based positions: the text before position i.
sliceBefore(s, i) == SubSeq(s, 1, i - 1)

\* pat occurs in s at position i.
MatchAt(s, i, pat) ==
    /\ i >= 1
    /\ i + Len(pat) - 1 <= Len(s)
    /\ \A k \in 1..Len(pat) : s[i + k - 1] = pat[k]

\* s.indexOf(pat): the first position of pat in s, 0 when there is none.
indexOf(s, pat) ==
    LET hits == {i \in 1..Len(s) : MatchAt(s, i, pat)}
    IN  IF hits = {} THEN 0 ELSE Min(hits)

\* s.includes(pat)
includes(s, pat) == indexOf(s, pat) > 0

\* s.trimStart()
trimStart(s) ==
    LET keep == {i \in 1..Len(s) : s[i] \notin WhiteSpace}
    IN  IF keep = {} THEN <<>> ELSE sliceFrom(s, Min(keep))

\* s.trimEnd()
trimEnd(s) ==
    LET keep == {i \in 1..Len(s) : s[i] \notin WhiteSpace}
    IN  IF keep = {} THEN <<>> ELSE SubSeq(s, 1, Max(keep))

\* s.trim()
trim(s) == trimStart(trimEnd(s))

\* Position i is where the multiline anchor ^ matches.
LineStart(s, i) == i = 1 \/ (i > 1 /\ s[i - 1] = NL)

(***************************************************************************)
(* Literal texts of the program                                            *)
(***************************************************************************)
H2 == <<"#", "#", SP>>

H3 == <<"#", "#", "#", SP>>

NoteText == "*Cross-plan context: see plans/FINDINGS.md and plans/DECISIONS.md*"

FindingsHeader ==
    <<"#", SP, "Consolidated Findings", NL,
      "*Cross-plan findings archive. Entries merged from per-plan findings.md on close. Newest first.*", NL>>

DecisionsHeader ==
    <<"#", SP, "Consolidated Decisions", NL,
      "*Cross-plan decision archive. Entries merged from per-plan decisions.md on close. Newest first.*", NL>>

(***************************************************************************)
(* Merge-on-close text transformations                                     *)
(***************************************************************************)
\* content.search(/^## /m): first line that starts with "## ", 0 if none.
searchH2(content) ==
    LET hits == {i \in 1..Len(content) : LineStart(content, i) /\ MatchAt(content, i, H2)}
    IN  IF hits = {} THEN 0 ELSE Min(hits)

stripHeader(content) ==
    LET firstH2 == searchH2(content)
    IN  IF firstH2 >= 1 THEN sliceFrom(content, firstH2) ELSE content

RECURSIVE stripNoteFrom(_, _)
\* The global replace of /\n?NOTE\n?/ by "\n", scanning from position i.
stripNoteFrom(s, i) ==
    IF i > Len(s) THEN <<>>
    ELSE IF s[i] = NL /\ i + 1 <= Len(s) /\ s[i + 1] = NoteText
         THEN <<NL>> \o stripNoteFrom(s, IF i + 2 <= Len(s) /\ s[i + 2] = NL THEN i + 3 ELSE i + 2)
    ELSE IF s[i] = NoteText
         THEN <<NL>> \o stripNoteFrom(s, IF i + 1 <= Len(s) /\ s[i + 1] = NL THEN i + 2 ELSE i + 1)
    ELSE <<s[i]>> \o stripNoteFrom(s, i + 1)

\* stripCrossPlanNote leaving the text as it is.
stripCrossPlanNoteKeeps(content) == content

stripCrossPlanNote(content) == stripNoteFrom(content, 1)

RECURSIVE demoteFrom(_, _)
\* The global replace of /^## /m by "### ", scanning from position i.
demoteFrom(s, i) ==
    IF i > Len(s) THEN <<>>
    ELSE IF LineStart(s, i) /\ MatchAt(s, i, H2)
         THEN H3 \o demoteFrom(s, i + 3)
    ELSE <<s[i]>> \o demoteFrom(s, i + 1)

demoteHeadings(s) == demoteFrom(s, 1)

RECURSIVE rewriteFrom(_, _, _)
\* The global replace of "(findings/" by "(<plan>/findings/".
rewriteFrom(s, i, planDirName) ==
    IF i > Len(s) THEN <<>>
    ELSE IF MatchAt(s, i, <<"(", "findings/">>)
         THEN <<"(", planDirName, "/", "findings/">> \o rewriteFrom(s, i + 2, planDirName)
    ELSE <<s[i]>> \o rewriteFrom(s, i + 1, planDirName)

rewriteFindingsLinks(s, planDirName) == rewriteFrom(s, 1, planDirName)

\* The section text mergeToConsolidated builds from findings.md.
findingsSection(content, planDirName) ==
    trim(rewriteFindingsLinks(demoteHeadings(stripCrossPlanNote(stripHeader(content))), planDirName))

\* The section text mergeToConsolidated builds from decisions.md.
decisionsSection(content) ==
    trim(demoteHeadings(stripCrossPlanNote(stripHeader(content))))

\* prependToConsolidated with the new section put after the old sections.
prependTextAppends(existing, planDirName, newSection) ==
    trimEnd(existing) \o <<NL, NL>> \o H2 \o <<planDirName, NL>> \o newSection \o <<NL>>

\* prependToConsolidated with the old sections not written back.
prependTextDropsBody(existing, planDirName, newSection) ==
    LET firstH2 == indexOf(existing, <<NL>> \o H2)
        header  == IF firstH2 >= 1 THEN sliceBefore(existing, firstH2) ELSE trimEnd(existing)
    IN  header \o <<NL, NL>> \o H2 \o <<planDirName, NL>> \o newSection \o <<NL>>

\* The text prependToConsolidated writes, from the archive's text read
\* before (empty when the archive could not be read).
prependText(existing, planDirName, newSection) ==
    LET firstH2 == indexOf(existing, <<NL>> \o H2)
        header  == IF firstH2 >= 1 THEN sliceBefore(existing, firstH2) ELSE trimEnd(existing)
        body    == IF firstH2 >= 1 THEN sliceFrom(existing, firstH2) ELSE <<>>
    IN  header \o <<NL, NL>> \o H2 \o <<planDirName, NL>> \o newSection \o <<NL>> \o body


(***************************************************************************)
(* Files and the directory tree under the working directory                *)
(***************************************************************************)
NoFile == [ex |-> FALSE, txt |-> <<>>]

File(t) == [ex |-> TRUE, txt |-> t]

PlanNames == {"plan_" \o ToString(i) : i \in 1..MaxPlans}

DocNames == {"state.md", "plan.md", "decisions.md", "findings.md", "progress.md", "verification.md"}

\* A plan directory that does not exist.
NoDir == [ex |-> FALSE, checkpoints |-> FALSE, findings |-> FALSE, files |-> [d \in DocNames |-> NoFile]]

DefaultGoal == "No goal specified"

Goals == {"Fix the auth module"}

\* The note put into every new plan, whether or not an archive exists.
crossPlanNoteAlways(hasConsolidated) == <<NL, NoteText, NL>>

crossPlanNote(hasConsolidated) == IF hasConsolidated THEN <<NL, NoteText, NL>> ELSE <<>>

StateTemplate ==
    <<"#", SP, "Current State:", SP, "EXPLORE", NL,
      "#", "#", SP, "Iteration:", SP, "0", NL,
      "#", "#", SP, "Current Plan Step:", SP, "N/A", NL,
      "#", "#", SP, "Pre-Step Checklist (reset before each EXECUTE step)", NL,
      "- [ ] Re-read state.md ... Checkpoint created", NL,
      "#", "#", SP, "Fix Attempts (resets per plan step)", NL, "- (none yet)", NL,
      "#", "#", SP, "Change Manifest (current iteration)", NL, "- (no changes yet)", NL,
      "#", "#", SP, "Last Transition:", SP, "INIT -> EXPLORE (timestamp)", NL,
      "#", "#", SP, "Transition History:", NL, "- INIT -> EXPLORE (task started)", NL>>

PlanTemplate(goal) ==
    <<"#", SP, "Plan v0", NL, NL,
      "#", "#", SP, "Goal", NL, goal, NL, NL,
      "#", "#", SP, "Problem Statement", NL, "*To be defined during PLAN.*", NL, NL,
      "#", "#", SP, "Context", NL, "*Pending EXPLORE phase.*", NL, NL,
      "#", "#", SP, "Files To Modify", NL, "*To be determined after EXPLORE.*", NL, NL,
      "#", "#", SP, "Steps", NL, "*To be determined after EXPLORE.*", NL, NL,
      "#", "#", SP, "Failure Modes", NL, "*To be determined during PLAN.*", NL, NL,
      "#", "#", SP, "Risks", NL, "*To be determined after EXPLORE.*", NL, NL,
      "#", "#", SP, "Success Criteria", NL, "*To be defined before first EXECUTE.*", NL, NL,
      "#", "#", SP, "Complexity Budget", NL, "- Files added: 0/3 max ...", NL>>

DecisionsTemplate(hasConsolidated) ==
    <<"#", SP, "Decision Log", NL, "*Append-only. Never edit past entries.*", NL>>
        \o crossPlanNote(hasConsolidated)

FindingsTemplate(hasConsolidated) ==
    <<"#", SP, "Findings", NL,
      "*Summary and index of all findings. Detailed files go in findings/ directory.*", NL>>
        \o crossPlanNote(hasConsolidated) \o
    <<NL, "#", "#", SP, "Index", NL, "*To be populated during EXPLORE.*", NL, NL,
      "#", "#", SP, "Key Constraints", NL, "*To be populated during EXPLORE.*", NL>>

ProgressTemplate ==
    <<"#", SP, "Progress", NL, NL,
      "#", "#", SP, "Completed", NL, "*Nothing yet.*", NL, NL,
      "#", "#", SP, "In Progress", NL, "- [ ] EXPLORE: Initial context gathering", NL, NL,
      "#", "#", SP, "Remaining", NL, "*To be populated from plan.md after PLAN phase.*", NL, NL,
      "#", "#", SP, "Blocked", NL, "*Nothing currently.*", NL>>

VerificationTemplate ==
    <<"#", SP, "Verification Results", NL, "*Populated during PLAN ...*", NL,
      "*Rewritten each iteration - not append-only.*", NL, NL,
      "#", "#", SP, "Criteria Verification", NL, "| # | Criterion ... |", NL, NL,
      "#", "#", SP, "Additional Checks", NL, "*Optional: lint, type checks ...*", NL, NL,
      "#", "#", SP, "Verdict", NL, "*To be completed during REFLECT.*", NL>>

\* The text cmdNew writes to each document of a new plan.
TemplateOf(doc, goal, hasConsolidated) ==
    CASE doc = "state.md"        -> StateTemplate
      [] doc = "plan.md"         -> PlanTemplate(goal)
      [] doc = "decisions.md"    -> DecisionsTemplate(hasConsolidated)
      [] doc = "findings.md"     -> FindingsTemplate(hasConsolidated)
      [] doc = "progress.md"     -> ProgressTemplate
      [] doc = "verification.md" -> VerificationTemplate

(***************************************************************************)
(* Helpers of the script                                                   *)
(***************************************************************************)
\* readPointer without the check that the named directory exists.
readPointerUnchecked(fs) ==
    IF ~fs.ptr.ex THEN ""
    ELSE LET name == trim(fs.ptr.txt)
         IN  IF Len(name) = 1 /\ name[1] \in PlanNames THEN name[1] ELSE ""

\* readPointer: the active plan's name, "" for null.  The pointer holds
\* whitespace and at most one name; join(plansDir, name) exists when name
\* is an existing plan directory.
readPointer(fs) ==
    IF ~fs.ptr.ex THEN ""
    ELSE LET name == trim(fs.ptr.txt)
         IN  IF Len(name) = 1 /\ name[1] \in PlanNames /\ fs.dirs[name[1]].ex
             THEN name[1] ELSE ""

\* readPlanFile: the document's text, null (absent file) as NoFile.
readPlanFile(fs, planDirName, filename) ==
    IF fs.dirs[planDirName].ex THEN fs.dirs[planDirName].files[filename] ELSE NoFile

\* The test for the pattern comparing whole lines without trimming them.
hasLineUntrimmed(content, p) ==
    \E i \in 1..Len(content) : \E j \in i..Len(content) :
        /\ LineStart(content, i)
        /\ j = Len(content) \/ content[j + 1] = NL
        /\ \A k \in i..j : content[k] # NL
        /\ SubSeq(content, i, j) = <<p>>

\* Some line of content, trimmed, is the pattern p.
hasLine(content, p) ==
    \E i \in 1..Len(content) : \E j \in i..Len(content) :
        /\ LineStart(content, i)
        /\ j = Len(content) \/ content[j + 1] = NL
        /\ \A k \in i..j : content[k] # NL
        /\ trim(SubSeq(content, i, j)) = <<p>>

IgnorePattern == "plans/"

\* ensureGitignore: the text it writes, from the text it read ("" when the
\* file could not be read).
gitignoreUpdated(content) ==
    content \o (IF content # <<>> /\ content[Len(content)] # NL THEN <<NL>> ELSE <<>>)
            \o <<IgnorePattern, NL>>

RECURSIVE skipSpace(_, _)
\* The first position at or after k of s that holds no whitespace, Len(s) + 1
\* when there is none: where \s* stops.
skipSpace(s, k) ==
    IF k > Len(s) \/ s[k] \notin WhiteSpace THEN k ELSE skipSpace(s, k + 1)

RECURSIVE lineEnd(_, _)
\* The position of the line end at or after r, Len(s) + 1 when there is none.
lineEnd(s, r) == IF r > Len(s) \/ s[r] = NL THEN r ELSE lineEnd(s, r + 1)

\* s from position r to the end of its line.
restOfLine(s, r) == SubSeq(s, r, lineEnd(s, r) - 1)

RECURSIVE searchLabel(_, _, _)
\* The first line start at or after i where label stands, 0 when none.
searchLabel(s, i, label) ==
    IF i > Len(s) THEN 0
    ELSE IF LineStart(s, i) /\ MatchAt(s, i, label) THEN i
    ELSE searchLabel(s, i + 1, label)

\* extractField(content, /^<label>\s*(.+)$/m): the trimmed rest of the line
\* that follows the first label at a line start and the whitespace after it
\* (line ends included); <<>> for null and for an empty capture.
extractField(content, label) ==
    LET hit == searchLabel(content.txt, 1, label)
    IN  IF ~content.ex \/ hit = 0 THEN <<>>
        ELSE LET r == skipSpace(content.txt, hit + Len(label))
             IN  IF r > Len(content.txt) THEN <<>> ELSE trim(restOfLine(content.txt, r))

GoalLabel == <<NL, "#", "#", SP, "Goal">>

RECURSIVE searchGoal(_, _)
\* The first position at or after i where the Goal heading stands with a
\* line end in the whitespace that follows it, 0 when none.
searchGoal(t, i) ==
    IF i > Len(t) THEN 0
    ELSE IF /\ MatchAt(t, i, GoalLabel)
            /\ \E k \in (i + Len(GoalLabel))..(skipSpace(t, i + Len(GoalLabel)) - 1) : t[k] = NL
         THEN i
    ELSE searchGoal(t, i + 1)

RECURSIVE searchFrom(_, _, _)
\* The first position at or after i where pat stands, Len(s) + 1 when none.
searchFrom(s, i, pat) ==
    IF i > Len(s) \/ MatchAt(s, i, pat) THEN i ELSE searchFrom(s, i + 1, pat)

\* extractField(plan, /\n## Goal\s*\n([\s\S]+?)(?=\n## |$)/): the trimmed
\* text between the Goal heading, the whitespace after it when it holds a
\* line end, and the next "\n## " or the end; <<>> for null or empty.
extractGoal(content) ==
    LET t   == content.txt
        hit == searchGoal(t, 1)
    IN  IF ~content.ex \/ hit = 0 THEN <<>>
        ELSE LET r == skipSpace(t, hit + Len(GoalLabel))
             IN  IF r > Len(t) THEN <<>>
                 ELSE trim(SubSeq(t, r, searchFrom(t, r, <<NL>> \o H2) - 1))

\* a || b giving the fallback whatever a is.
orElseFallback(a, b) == b

\* a || b for texts
orElse(a, b) == IF a = <<>> THEN b ELSE a

\* text.split("\n")[0]
firstLine(text) == restOfLine(text, 1)

GoalWidth == 60

RECURSIVE sliceChars(_, _)
\* text.slice(0, n) counted in characters: whole tokens while they fit,
\* then the beginning of the token that does not.
sliceChars(text, n) ==
    IF text = <<>> \/ n <= 0 THEN <<>>
    ELSE IF Len(Head(text)) <= n THEN <<Head(text)>> \o sliceChars(Tail(text), n - Len(Head(text)))
    ELSE <<SubSeq(Head(text), 1, n)>>

\* The characters of plan directory names in code-unit order.
CodeUnits == "-0123456789_abcdefghijklmnopqrstuvwxyz"

codeUnit(c) == CHOOSE i \in 1..Len(CodeUnits) : SubSeq(CodeUnits, i, i) = c

RECURSIVE lexLess(_, _)
\* a < b as Array.prototype.sort compares strings.
lexLess(a, b) ==
    IF a = "" THEN b # ""
    ELSE IF b = "" THEN FALSE
    ELSE IF SubSeq(a, 1, 1) = SubSeq(b, 1, 1) THEN lexLess(SubSeq(a, 2, Len(a)), SubSeq(b, 2, Len(b)))
    ELSE codeUnit(SubSeq(a, 1, 1)) < codeUnit(SubSeq(b, 1, 1))

RECURSIVE sortNames(_)
\* The names of S as .sort() returns them.
sortNames(S) ==
    IF S = {} THEN <<>>
    ELSE LET least == CHOOSE x \in S : \A y \in S \ {x} : lexLess(x, y)
         IN  <<least>> \o sortNames(S \ {least})

\* The plan directories readdirSync finds under plans/.
planEntries(fs) == {p \in PlanNames : fs.dirs[p].ex}


(***************************************************************************)
(* State                                                                   *)
(*   fs      the files: plans/ (root), the pointer plans/.current_plan and *)
(*           its .tmp, the archives F = plans/FINDINGS.md and              *)
(*           D = plans/DECISIONS.md with their .tmp, .gitignore with its   *)
(*           .tmp, and the plan directories                                *)
(*   pc      the position of the running invocation, "done" when none runs *)
(*   loc     the invocation's arguments, local variables, warnings, exit   *)
(*   closed  the plans whose close has completed, oldest first (history)   *)
(*   pre     fs as it was when the last invocation started (history)       *)
(*   writes  the number of documents the caller has written (bounded)      *)
(*   faults  the number of calls that threw or were cut by a kill (bounded) *)
(*   origGi  .gitignore as it was before the first invocation (history)    *)
(***************************************************************************)
VARIABLES fs, pc, loc, closed, pre, writes, faults, origGi

vars == <<fs, pc, loc, closed, pre, writes, faults, origGi>>

Subcommands == {"new", "resume", "status", "close", "list", "help"}

UnknownFlag == "--unknown"

\* cmd.startsWith("-") never true: every unknown first argument is a goal.
startsWithDashNever(cmd) == FALSE

\* cmd.startsWith("-") for the first arguments the model passes.
startsWithDash(cmd) == cmd = UnknownFlag

\* What resume, status and list print: a message and one row per plan shown.
NoOut == [msg |-> "", count |-> 0, rows |-> <<>>]

IdleLoc ==
    [cmd |-> "none", force |-> FALSE, goal |-> "", name |-> "", existing |-> "",
     previous |-> "", note |-> FALSE, silent |-> FALSE, target |-> "",
     ignoreWritten |-> FALSE, err |-> "", out |-> NoOut, exit |-> 0, warn |-> {}]

\* The running invocation as one value.
Machine == [fs |-> fs, pc |-> pc, loc |-> loc, closed |-> closed]

Goto(m, l) == [m EXCEPT !.pc = l]

Exit(m, code) == [m EXCEPT !.pc = "done", !.loc.exit = code]

Warn(m, w) == [m EXCEPT !.loc.warn = @ \cup {w}]

\* writeFileSync(planDir/doc, text)
WriteDoc(m, doc, text) == [m EXCEPT !.fs.dirs[m.loc.name].files[doc] = File(text)]

\* The label cmdClose returns to: back in cmdNew when silent, else exit.
AfterClose(m, code) == IF m.loc.silent THEN Goto(m, "n_gen") ELSE Exit(m, code)

\* The catch block of cmdClose: a warning unless silent, then the unlink.
CloseCatch(m) == Goto(IF m.loc.silent THEN m ELSE Warn(m, "merge failed"), "c_unlink")

\* ensureConsolidatedFiles writing the header whether or not the archive
\* exists.
EnsureStepResets(m, f, a, h, next, c) ==
    IF f THEN c ELSE Goto([m EXCEPT !.fs[a] = File(h)], next)

\* The steps of ensureConsolidatedFiles for one archive (field a, header h):
\* a write only when the archive does not exist; a throw goes to label c.
EnsureStep(m, f, a, h, next, c) ==
    IF m.fs[a].ex THEN Goto(m, next)
    ELSE IF f THEN c
    ELSE Goto([m EXCEPT !.fs[a] = File(h)], next)

\* The section mergeToConsolidated builds for archive a from the plan's file.
SectionFor(m, a) ==
    LET content == readPlanFile(m.fs, m.loc.target, IF a = "F" THEN "findings.md" ELSE "decisions.md")
    IN  IF ~content.ex \/ content.txt = <<>> THEN <<>>
        ELSE IF a = "F" THEN findingsSection(content.txt, m.loc.target)
        ELSE decisionsSection(content.txt)

\* prependToConsolidated up to its writeFileSync of the .tmp file.
MergeWriteStep(m, f, a, tmp, next, skip) ==
    LET section == SectionFor(m, a)
        existing == IF m.fs[a].ex THEN m.fs[a].txt ELSE <<>>
    IN  IF section = <<>> THEN Goto(m, skip)
        ELSE IF f THEN CloseCatch(m)
        ELSE Goto([m EXCEPT !.fs[tmp] = File(prependText(existing, m.loc.target, section))], next)

\* renameSync(x.tmp, x)
RenameStep(m, f, a, tmp, next, c) ==
    IF f \/ ~m.fs[tmp].ex THEN c
    ELSE Goto([m EXCEPT !.fs[a] = m.fs[tmp], !.fs[tmp] = NoFile], next)


(***************************************************************************)
(* resume, status and list                                                 *)
(***************************************************************************)
StateLabel == <<"#", SP, "Current State:">>

IterationLabel == H2 \o <<"Iteration:">>

StepLabel == H2 \o <<"Current Plan Step:">>

TransitionLabel == H2 \o <<"Last Transition:">>

Say(m, msg) == [m EXCEPT !.loc.out.msg = msg]

\* cmdResume exiting 0 when there is no active plan, as cmdStatus does.
ResumeStepLenient(m) ==
    IF readPointer(m.fs) = "" THEN Exit(Say(m, "ERROR: No active plan."), 0)
    ELSE Exit([m EXCEPT !.loc.out = [msg |-> "Resuming", count |-> 1, rows |-> <<>>]], 0)

\* cmdResume: the header it prints for the active plan.
ResumeStep(m) ==
    LET planDirName == readPointer(m.fs)
        state == readPlanFile(m.fs, planDirName, "state.md")
        plan  == readPlanFile(m.fs, planDirName, "plan.md")
        row   == [name      |-> planDirName,
                  state     |-> orElse(extractField(state, StateLabel), <<"UNKNOWN">>),
                  iteration |-> orElse(extractField(state, IterationLabel), <<"?">>),
                  step      |-> orElse(extractField(state, StepLabel), <<"N/A">>),
                  last      |-> orElse(extractField(state, TransitionLabel), <<"?">>),
                  goal      |-> firstLine(orElse(extractGoal(plan), <<"No goal found">>)),
                  active    |-> TRUE]
    IN  IF planDirName = "" THEN Exit(Say(m, "ERROR: No active plan."), 1)
        ELSE Exit([m EXCEPT !.loc.out = [msg |-> "Resuming", count |-> 1, rows |-> <<row>>]], 0)

\* cmdStatus removing a pointer file that names no plan directory.
StatusStepHeals(m) ==
    IF readPointer(m.fs) = "" THEN Exit(Say([m EXCEPT !.fs.ptr = NoFile], "No active plan."), 0)
    ELSE Exit([m EXCEPT !.loc.out = [msg |-> "status", count |-> 1, rows |-> <<>>]], 0)

\* cmdStatus exiting 1 when there is no active plan, as cmdResume does.
StatusStepStrict(m) ==
    IF readPointer(m.fs) = "" THEN Exit(Say(m, "No active plan."), 1)
    ELSE Exit([m EXCEPT !.loc.out = [msg |-> "status", count |-> 1, rows |-> <<>>]], 0)

\* cmdStatus: its one line.
StatusStep(m) ==
    LET planDirName == readPointer(m.fs)
        state == readPlanFile(m.fs, planDirName, "state.md")
        plan  == readPlanFile(m.fs, planDirName, "plan.md")
        row   == [name      |-> planDirName,
                  state     |-> orElse(extractField(state, StateLabel), <<"UNKNOWN">>),
                  iteration |-> orElse(extractField(state, IterationLabel), <<"?">>),
                  step      |-> orElse(extractField(state, StepLabel), <<"N/A">>),
                  last      |-> <<>>,
                  goal      |-> sliceChars(firstLine(orElse(extractGoal(plan), <<"?">>)), GoalWidth),
                  active    |-> TRUE]
    IN  IF planDirName = "" THEN Exit(Say(m, "No active plan."), 0)
        ELSE Exit([m EXCEPT !.loc.out = [msg |-> "status", count |-> 1, rows |-> <<row>>]], 0)

\* The line cmdList prints for the plan directory name.
ListRow(f, name, activeName) ==
    [name      |-> name,
     state     |-> orElse(extractField(readPlanFile(f, name, "state.md"), StateLabel), <<"?">>),
     iteration |-> <<>>,
     step      |-> <<>>,
     last      |-> <<>>,
     goal      |-> sliceChars(firstLine(orElse(extractGoal(readPlanFile(f, name, "plan.md")), <<"?">>)),
                              GoalWidth),
     active    |-> name = activeName]

\* cmdList marking every directory as the active one.
ListStepMarksAll(m) ==
    LET entries == sortNames(planEntries(m.fs))
    IN  IF ~m.fs.root THEN Exit(Say(m, "No plans/ directory found."), 0)
        ELSE IF Len(entries) = 0 THEN Exit(Say(m, "No plan directories found."), 0)
        ELSE Exit([m EXCEPT !.loc.out =
                      [msg |-> "Plan directories in plans/", count |-> Len(entries),
                       rows |-> [i \in 1..Len(entries) |-> ListRow(m.fs, entries[i], entries[i])]]], 0)

\* cmdList
ListStep(m) ==
    LET activeName == readPointer(m.fs)
        entries    == sortNames(planEntries(m.fs))
    IN  IF ~m.fs.root THEN Exit(Say(m, "No plans/ directory found."), 0)
        ELSE IF Len(entries) = 0 THEN Exit(Say(m, "No plan directories found."), 0)
        ELSE Exit([m EXCEPT !.loc.out =
                      [msg |-> "Plan directories in plans/", count |-> Len(entries),
                       rows |-> [i \in 1..Len(entries) |-> ListRow(m.fs, entries[i], activeName)]]], 0)

\* The documents cmdNew writes, in the order it writes them, with the
\* label of the step that writes each.
DocOrder == <<"state.md", "plan.md", "decisions.md", "findings.md", "progress.md", "verification.md">>

DocLabel(i) == "n_w_" \o DocOrder[i]

DocLabels == {DocLabel(i) : i \in 1..Len(DocOrder)}

DocIndex(l) == CHOOSE i \in 1..Len(DocOrder) : DocLabel(i) = l

\* Entering the catch block of cmdNew; err is the call that threw.
NewCatch(m) == Goto([m EXCEPT !.loc.err = m.pc], "n_c_rm")

\* The dispatch at the end of the script: from the arguments to a command.
DispatchStep(m) ==
    LET cmd == m.loc.cmd
    IN  CASE cmd = "" -> Exit(m, 0)
          [] cmd \notin Subcommands /\ startsWithDash(cmd) -> Exit(m, 1)
          [] cmd \notin Subcommands /\ ~startsWithDash(cmd) ->
                Goto([m EXCEPT !.loc.force = FALSE], "n_mkroot")
          [] cmd = "new" ->
                Goto([m EXCEPT !.loc.goal = IF @ = "" THEN DefaultGoal ELSE @], "n_mkroot")
          [] cmd = "resume" -> Goto(m, "r_run")
          [] cmd = "status" -> Goto(m, "s_run")
          [] cmd = "close" -> Goto(m, "c_read")
          [] cmd = "list" -> Goto(m, "l_run")
          [] cmd = "help" -> Exit(m, 0)

\* cmdNew going on to create a plan although one is active.
NewCheckStepNoRefusal(m) ==
    LET existing == readPointer(m.fs)
    IN  IF existing # "" /\ m.loc.force
        THEN Goto([m EXCEPT !.loc.existing = existing, !.loc.previous = existing,
                            !.loc.silent = TRUE], "c_read")
        ELSE Goto(m, "n_gen")

\* cmdNew with --force replacing the active plan without closing it.
NewCheckStepNoClose(m) ==
    LET existing == readPointer(m.fs)
    IN  IF existing # "" /\ ~m.loc.force THEN Exit(m, 1)
        ELSE Goto([m EXCEPT !.loc.existing = existing,
                            !.loc.previous = IF m.loc.force THEN existing ELSE ""], "n_gen")

\* cmdNew without the warning about orphaned directories.
NewCheckStepNoWarning(m) ==
    LET existing == readPointer(m.fs)
    IN  IF existing # "" /\ ~m.loc.force THEN Exit(m, 1)
        ELSE IF existing # "" /\ m.loc.force
             THEN Goto([m EXCEPT !.loc.existing = existing, !.loc.previous = existing,
                                 !.loc.silent = TRUE], "c_read")
        ELSE Goto(m, "n_gen")

\* cmdNew from the orphan warning to the branch on the active plan.
NewCheckStep(m) ==
    LET existing == readPointer(m.fs)
        orphans  == planEntries(m.fs) \ {existing}
        w        == IF orphans # {} /\ existing = "" THEN Warn(m, "orphans") ELSE m
    IN  IF existing # "" /\ ~m.loc.force THEN Exit(w, 1)
        ELSE IF existing # "" /\ m.loc.force
             THEN Goto([w EXCEPT !.loc.existing = existing, !.loc.previous = existing,
                                 !.loc.silent = TRUE], "c_read")
        ELSE Goto(w, "n_gen")

\* The catch block of cmdNew without the restore of the previous pointer.
NewCleanupStepNoRestore(m, f) ==
    CASE m.pc = "n_c_rm" ->
            Goto(IF f THEN Warn(m, "cleanup dir failed")
                 ELSE [m EXCEPT !.fs.dirs[m.loc.name] = NoDir], "n_c_untmp")
      [] m.pc = "n_c_untmp" ->
            Goto(IF ~m.fs.ptrTmp.ex THEN m
                 ELSE IF f THEN Warn(m, "cleanup tmp failed")
                 ELSE [m EXCEPT !.fs.ptrTmp = NoFile], "n_c_ptr")
      [] m.pc = "n_c_ptr" ->
            Exit(IF ~m.fs.ptr.ex THEN m
                 ELSE IF f THEN Warn(m, "cleanup pointer failed")
                 ELSE [m EXCEPT !.fs.ptr = NoFile], 1)

\* The catch block of cmdNew without the removal of the new directory.
NewCleanupStepKeepsDir(m, f) ==
    CASE m.pc = "n_c_rm" -> Goto(m, "n_c_untmp")
      [] m.pc = "n_c_untmp" ->
            Goto(IF ~m.fs.ptrTmp.ex THEN m
                 ELSE IF f THEN Warn(m, "cleanup tmp failed")
                 ELSE [m EXCEPT !.fs.ptrTmp = NoFile], "n_c_ptr")
      [] m.pc = "n_c_ptr" ->
            Exit(IF m.loc.previous # ""
                 THEN (IF f THEN Warn(m, "restore failed")
                       ELSE Warn([m EXCEPT !.fs.ptr = File(<<m.loc.previous>>)], "restored"))
                 ELSE IF ~m.fs.ptr.ex THEN m
                 ELSE IF f THEN Warn(m, "cleanup pointer failed")
                 ELSE [m EXCEPT !.fs.ptr = NoFile], 1)

\* The catch block of cmdNew, one statement per label.
NewCleanupStep(m, f) ==
    CASE m.pc = "n_c_rm" ->
            Goto(IF f THEN Warn(m, "cleanup dir failed")
                 ELSE [m EXCEPT !.fs.dirs[m.loc.name] = NoDir], "n_c_untmp")
      [] m.pc = "n_c_untmp" ->
            Goto(IF ~m.fs.ptrTmp.ex THEN m
                 ELSE IF f THEN Warn(m, "cleanup tmp failed")
                 ELSE [m EXCEPT !.fs.ptrTmp = NoFile], "n_c_ptr")
      [] m.pc = "n_c_ptr" ->
            Exit(IF m.loc.previous # ""
                 THEN (IF f THEN Warn(m, "restore failed")
                       ELSE Warn([m EXCEPT !.fs.ptr = File(<<m.loc.previous>>)], "restored"))
                 ELSE IF ~m.fs.ptr.ex THEN m
                 ELSE IF f THEN Warn(m, "cleanup pointer failed")
                 ELSE [m EXCEPT !.fs.ptr = NoFile], 1)

\* ensureGitignore run inside the first try block: a failure enters the
\* catch that removes the new plan.
GitignoreStepRollsBack(m, f) ==
    LET content == IF m.fs.gi.ex THEN m.fs.gi.txt ELSE <<>>
    IN  CASE m.pc = "n_gi_w" ->
                IF hasLine(content, IgnorePattern) THEN Exit(m, 0)
                ELSE IF f THEN NewCatch(Warn(m, "gitignore failed"))
                ELSE Goto([m EXCEPT !.fs.giTmp = File(gitignoreUpdated(content)),
                                    !.loc.ignoreWritten = TRUE], "n_gi_r")
          [] m.pc = "n_gi_r" ->
                RenameStep(m, f, "gi", "giTmp", "exit0", NewCatch(Warn(m, "gitignore failed")))

\* ensureGitignore inside cmdNew's second try block.
GitignoreStep(m, f) ==
    LET content == IF m.fs.gi.ex THEN m.fs.gi.txt ELSE <<>>
    IN  CASE m.pc = "n_gi_w" ->
                IF hasLine(content, IgnorePattern) THEN Exit(m, 0)
                ELSE IF f THEN Exit(Warn(m, "gitignore failed"), 0)
                ELSE Goto([m EXCEPT !.fs.giTmp = File(gitignoreUpdated(content)),
                                    !.loc.ignoreWritten = TRUE], "n_gi_r")
          [] m.pc = "n_gi_r" ->
                RenameStep(m, f, "gi", "giTmp", "exit0", Exit(Warn(m, "gitignore failed"), 0))

\* The unlink step removing the closed plan's directory as well.
UnlinkStepRemovesPlan(m, f) ==
    [m EXCEPT !.fs.ptr = IF f THEN @ ELSE NoFile, !.closed = Append(@, m.loc.target),
              !.fs.dirs[m.loc.target] = NoDir]

\* unlinkSync(pointerFile) in its own try block, then the recorded close.
UnlinkStep(m, f) ==
    [m EXCEPT !.fs.ptr = IF f THEN @ ELSE NoFile, !.closed = Append(@, m.loc.target)]

\* cmdClose removing the pointer before it merges.
CloseStepUnlinksFirst(m, f) ==
    CASE m.pc = "c_read" ->
            LET planDirName == readPointer(m.fs)
            IN  IF planDirName = "" THEN AfterClose(m, 1)
                ELSE Goto([m EXCEPT !.loc.target = planDirName, !.fs.ptr = NoFile], "c_ensF")
      [] m.pc = "c_ensF" -> EnsureStep(m, f, "F", FindingsHeader, "c_ensD", CloseCatch(m))
      [] m.pc = "c_ensD" -> EnsureStep(m, f, "D", DecisionsHeader, "c_mF_w", CloseCatch(m))
      [] m.pc = "c_mF_w" -> MergeWriteStep(m, f, "F", "Ftmp", "c_mF_r", "c_mD_w")
      [] m.pc = "c_mF_r" -> RenameStep(m, f, "F", "Ftmp", "c_mD_w", CloseCatch(m))
      [] m.pc = "c_mD_w" -> MergeWriteStep(m, f, "D", "Dtmp", "c_mD_r", "c_unlink")
      [] m.pc = "c_mD_r" -> RenameStep(m, f, "D", "Dtmp", "c_unlink", CloseCatch(m))
      [] m.pc = "c_unlink" -> AfterClose(UnlinkStep(m, f), 0)

\* cmdClose, one filesystem call per label.
CloseStep(m, f) ==
    CASE m.pc = "c_read" ->
            LET planDirName == readPointer(m.fs)
            IN  IF planDirName = "" THEN AfterClose(m, 1)
                ELSE Goto([m EXCEPT !.loc.target = planDirName], "c_ensF")
      [] m.pc = "c_ensF" -> EnsureStep(m, f, "F", FindingsHeader, "c_ensD", CloseCatch(m))
      [] m.pc = "c_ensD" -> EnsureStep(m, f, "D", DecisionsHeader, "c_mF_w", CloseCatch(m))
      [] m.pc = "c_mF_w" -> MergeWriteStep(m, f, "F", "Ftmp", "c_mF_r", "c_mD_w")
      [] m.pc = "c_mF_r" -> RenameStep(m, f, "F", "Ftmp", "c_mD_w", CloseCatch(m))
      [] m.pc = "c_mD_w" -> MergeWriteStep(m, f, "D", "Dtmp", "c_mD_r", "c_unlink")
      [] m.pc = "c_mD_r" -> RenameStep(m, f, "D", "Dtmp", "c_unlink", CloseCatch(m))
      [] m.pc = "c_unlink" -> AfterClose(UnlinkStep(m, f), 0)

\* cmdNew writing the pointer before it creates the plan directory.
NewStepPointerFirst(m, f) ==
    LET name == m.loc.name
    IN  CASE m.pc = "n_mkroot" ->
                IF f THEN Exit(m, 1) ELSE Goto([m EXCEPT !.fs.root = TRUE], "n_check")
          [] m.pc = "n_check" -> NewCheckStep(m)
          [] m.pc = "n_gen" ->
                Goto([m EXCEPT !.loc.note = m.fs.F.ex \/ m.fs.D.ex,
                                    !.fs.ptr = File(<<name>>)], "n_mk_chk")
          [] m.pc = "n_mk_chk" ->
                IF f THEN NewCatch(m)
                ELSE Goto([m EXCEPT !.fs.dirs[name].ex = TRUE,
                                    !.fs.dirs[name].checkpoints = TRUE], "n_mk_fnd")
          [] m.pc = "n_mk_fnd" ->
                IF f THEN NewCatch(m)
                ELSE Goto([m EXCEPT !.fs.dirs[name].ex = TRUE,
                                    !.fs.dirs[name].findings = TRUE], DocLabel(1))
          [] m.pc \in DocLabels ->
                LET i == DocIndex(m.pc)
                IN  IF f THEN NewCatch(m)
                    ELSE Goto(WriteDoc(m, DocOrder[i], TemplateOf(DocOrder[i], m.loc.goal, m.loc.note)),
                              IF i < Len(DocOrder) THEN DocLabel(i + 1) ELSE "n_ensF")
          [] m.pc = "n_ensF" -> EnsureStep(m, f, "F", FindingsHeader, "n_ensD", NewCatch(m))
          [] m.pc = "n_ensD" -> EnsureStep(m, f, "D", DecisionsHeader, "n_ptmp", NewCatch(m))
          [] m.pc = "n_ptmp" ->
                IF f THEN NewCatch(m)
                ELSE Goto([m EXCEPT !.fs.ptrTmp = File(<<name>>)], "n_pren")
          [] m.pc = "n_pren" -> RenameStep(m, f, "ptr", "ptrTmp", "n_gi_w", NewCatch(m))

\* The try block of cmdNew, one filesystem call per label.
NewStep(m, f) ==
    LET name == m.loc.name
    IN  CASE m.pc = "n_mkroot" ->
                IF f THEN Exit(m, 1) ELSE Goto([m EXCEPT !.fs.root = TRUE], "n_check")
          [] m.pc = "n_check" -> NewCheckStep(m)
          [] m.pc = "n_gen" ->
                Goto([m EXCEPT !.loc.note = m.fs.F.ex \/ m.fs.D.ex], "n_mk_chk")
          [] m.pc = "n_mk_chk" ->
                IF f THEN NewCatch(m)
                ELSE Goto([m EXCEPT !.fs.dirs[name].ex = TRUE,
                                    !.fs.dirs[name].checkpoints = TRUE], "n_mk_fnd")
          [] m.pc = "n_mk_fnd" ->
                IF f THEN NewCatch(m)
                ELSE Goto([m EXCEPT !.fs.dirs[name].ex = TRUE,
                                    !.fs.dirs[name].findings = TRUE], DocLabel(1))
          [] m.pc \in DocLabels ->
                LET i == DocIndex(m.pc)
                IN  IF f THEN NewCatch(m)
                    ELSE Goto(WriteDoc(m, DocOrder[i], TemplateOf(DocOrder[i], m.loc.goal, m.loc.note)),
                              IF i < Len(DocOrder) THEN DocLabel(i + 1) ELSE "n_ensF")
          [] m.pc = "n_ensF" -> EnsureStep(m, f, "F", FindingsHeader, "n_ensD", NewCatch(m))
          [] m.pc = "n_ensD" -> EnsureStep(m, f, "D", DecisionsHeader, "n_ptmp", NewCatch(m))
          [] m.pc = "n_ptmp" ->
                IF f THEN NewCatch(m)
                ELSE Goto([m EXCEPT !.fs.ptrTmp = File(<<name>>)], "n_pren")
          [] m.pc = "n_pren" -> RenameStep(m, f, "ptr", "ptrTmp", "n_gi_w", NewCatch(m))

CloseLabels == {"c_read", "c_ensF", "c_ensD", "c_mF_w", "c_mF_r", "c_mD_w", "c_mD_r", "c_unlink"}

CleanupLabels == {"n_c_rm", "n_c_untmp", "n_c_ptr"}

GitignoreLabels == {"n_gi_w", "n_gi_r"}

\* One step of the running invocation; f: the filesystem call of this step
\* throws (and changes nothing).
Step(m, f) ==
    CASE m.pc = "dispatch" -> DispatchStep(m)
      [] m.pc \in CloseLabels -> CloseStep(m, f)
      [] m.pc \in CleanupLabels -> NewCleanupStep(m, f)
      [] m.pc \in GitignoreLabels -> GitignoreStep(m, f)
      [] m.pc = "exit0" -> Exit(m, 0)
      [] m.pc = "r_run" -> ResumeStep(m)
      [] m.pc = "s_run" -> StatusStep(m)
      [] m.pc = "l_run" -> ListStep(m)
      [] OTHER -> NewStep(m, f)

\* The step at m.pc makes a filesystem call that can throw.
Calls(m) ==
    \/ m.pc \in {"n_mkroot", "n_mk_chk", "n_mk_fnd", "n_ptmp", "n_pren", "n_c_rm",
                 "c_mF_r", "c_mD_r", "c_unlink", "n_gi_r"} \cup DocLabels
    \/ m.pc \in {"c_ensF", "n_ensF"} /\ ~m.fs.F.ex
    \/ m.pc \in {"c_ensD", "n_ensD"} /\ ~m.fs.D.ex
    \/ m.pc = "c_mF_w" /\ SectionFor(m, "F") # <<>>
    \/ m.pc = "c_mD_w" /\ SectionFor(m, "D") # <<>>
    \/ m.pc = "n_c_untmp" /\ m.fs.ptrTmp.ex
    \/ m.pc = "n_c_ptr" /\ (m.loc.previous # "" \/ m.fs.ptr.ex)
    \/ m.pc = "n_gi_w" /\ ~hasLine(IF m.fs.gi.ex THEN m.fs.gi.txt ELSE <<>>, IgnorePattern)

RECURSIVE Run(_)
\* The invocation run to its exit with no filesystem call throwing.
Run(m) == IF m.pc = "done" THEN m ELSE Run(Step(m, FALSE))


(***************************************************************************)
(* The caller's documents and the initial working directory                *)
(***************************************************************************)
\* What the caller (the agent) writes into decisions.md or findings.md.
DocChoices ==
    { <<>>,
      <<"#", SP, "Title", NL, NL, "#", "#", SP, "Index", NL,
        "[a]", "(", "findings/", "a.md)", NL>>,
      <<SP, "#", "#", SP, "Indented", NL>>,
      <<"#", SP, "Title", NL, "see", SP, "(", "findings/", "b.md)", NL>>,
      <<"#", "#", SP, "A", NL, NoteText, NL, "#", "#", SP, "B", NL>> }

CallerDocs == {"decisions.md", "findings.md"}

EmptyFs(gi) ==
    [root |-> FALSE, ptr |-> NoFile, ptrTmp |-> NoFile,
     F |-> NoFile, Ftmp |-> NoFile, D |-> NoFile, Dtmp |-> NoFile,
     gi |-> gi, giTmp |-> NoFile,
     dirs |-> [p \in PlanNames |-> NoDir]]

Init ==
    /\ fs = EmptyFs(NoFile)
    /\ pc = "done"
    /\ loc = IdleLoc
    /\ closed = <<>>
    /\ pre = fs
    /\ writes = 0
    /\ faults = 0
    /\ origGi = fs.gi

(***************************************************************************)
(* Actions: one invocation of the script, run to its exit                  *)
(***************************************************************************)
SetMachine(m) ==
    /\ fs' = m.fs
    /\ pc' = m.pc
    /\ loc' = m.loc
    /\ closed' = m.closed

\* The invocation as it starts: arguments parsed, nothing done yet.  name
\* is the directory name cmdNew will generate (date and 8 random hex).
StartFrom(f, cmd, force, goal, name) ==
    [fs |-> f, pc |-> "dispatch",
     loc |-> [IdleLoc EXCEPT !.cmd = cmd, !.force = force, !.goal = goal, !.name = name,
                             !.exit = -1],
     closed |-> closed]

StartMachine(cmd, force, goal, name) == StartFrom(fs, cmd, force, goal, name)

\* Names randomBytes can give that no existing plan directory has.
FreshNames == PlanNames \ planEntries(fs)

Invoke(cmd, force, goal, name) ==
    /\ SetMachine(Run(StartMachine(cmd, force, goal, name)))
    /\ pre' = fs
    /\ UNCHANGED <<writes, faults, origGi>>

New ==
    /\ pc = "done"
    /\ \E goal \in Goals : \E name \in FreshNames : Invoke("new", FALSE, goal, name)

NewForce ==
    /\ pc = "done"
    /\ \E goal \in Goals : \E name \in FreshNames : Invoke("new", TRUE, goal, name)

\* The legacy form: the goal text as the only arguments.
LegacyNew ==
    /\ pc = "done"
    /\ \E goal \in Goals : \E name \in FreshNames : Invoke(goal, FALSE, goal, name)

Resume ==
    /\ pc = "done"
    /\ Invoke("resume", FALSE, "", "")

Status ==
    /\ pc = "done"
    /\ Invoke("status", FALSE, "", "")

Close ==
    /\ pc = "done"
    /\ Invoke("close", FALSE, "", "")

List ==
    /\ pc = "done"
    /\ Invoke("list", FALSE, "", "")

Help ==
    /\ pc = "done"
    /\ Invoke("help", FALSE, "", "")

NoArgs ==
    /\ pc = "done"
    /\ Invoke("", FALSE, "", "")

BadFlag ==
    /\ pc = "done"
    /\ Invoke(UnknownFlag, FALSE, "", "")

\* The caller writes a document of the active plan between invocations.
CallerWrite ==
    /\ pc = "done"
    /\ writes < MaxWrites
    /\ readPointer(fs) # ""
    /\ \E doc \in CallerDocs : \E t \in DocChoices :
          fs' = [fs EXCEPT !.dirs[readPointer(fs)].files[doc] = File(t)]
    /\ writes' = writes + 1
    /\ loc' = IdleLoc
    /\ pre' = fs'
    /\ UNCHANGED <<pc, closed, faults, origGi>>

Next ==
    \/ New
    \/ NewForce
    \/ LegacyNew
    \/ Resume
    \/ Status
    \/ Close
    \/ List
    \/ Help
    \/ NoArgs
    \/ BadFlag
    \/ CallerWrite

Spec == Init /\ [][Next]_vars


(***************************************************************************)
(* Invocations taken one filesystem call at a time, any call of which may  *)
(* throw                                                                   *)
(***************************************************************************)
\* An invocation of new, new --force or close starts.
Begin ==
    /\ pc = "done"
    /\ \/ \E force \in BOOLEAN : \E goal \in Goals : \E name \in FreshNames :
             SetMachine(StartMachine("new", force, goal, name))
       \/ SetMachine(StartMachine("close", FALSE, "", ""))
    /\ pre' = fs
    /\ UNCHANGED <<writes, faults, origGi>>

\* The running invocation takes its next step and the call succeeds.
StepOk ==
    /\ pc # "done"
    /\ SetMachine(Step(Machine, FALSE))
    /\ UNCHANGED <<pre, writes, faults, origGi>>

\* The running invocation takes its next step and the call throws.
StepThrow ==
    /\ pc # "done"
    /\ Calls(Machine)
    /\ faults < MaxFaults
    /\ SetMachine(Step(Machine, TRUE))
    /\ faults' = faults + 1
    /\ UNCHANGED <<pre, writes, origGi>>

NextFault ==
    \/ Begin
    \/ StepOk
    \/ StepThrow

SpecFault == Init /\ [][NextFault]_vars

(***************************************************************************)
(* The same, with randomBytes free to return any value: the generated name *)
(* may be that of a directory that exists                                  *)
(***************************************************************************)
\* An invocation of new, new --force or close starts; cmdNew will generate
\* any of the names.  With names used again the archives can grow without
\* end: invocations start while fewer than MaxPlans closes have been made.
BeginAnyName ==
    /\ pc = "done"
    /\ Len(closed) < MaxPlans
    /\ \/ \E force \in BOOLEAN : \E goal \in Goals : \E name \in PlanNames :
             SetMachine(StartMachine("new", force, goal, name))
       \/ SetMachine(StartMachine("close", FALSE, "", ""))
    /\ pre' = fs
    /\ UNCHANGED <<writes, faults, origGi>>

NextAnyName ==
    \/ BeginAnyName
    \/ StepOk
    \/ StepThrow

SpecAnyName == Init /\ [][NextAnyName]_vars

(***************************************************************************)
(* The same, with the process killed between or inside filesystem calls    *)
(***************************************************************************)
\* The locals of a process ended by SIGKILL: the shell reports 128 + 9.
Killed(l) == [l EXCEPT !.exit = 128 + 9]

\* The file the writeFileSync at m.pc writes: <<field>> for a file of fs,
\* <<plan, doc>> for a document of a plan; <<>> when the step writes none.
WriteTarget(m) ==
    CASE m.pc \in {"c_ensF", "n_ensF"} /\ ~m.fs.F.ex -> <<"F">>
      [] m.pc \in {"c_ensD", "n_ensD"} /\ ~m.fs.D.ex -> <<"D">>
      [] m.pc = "c_mF_w" /\ SectionFor(m, "F") # <<>> -> <<"Ftmp">>
      [] m.pc = "c_mD_w" /\ SectionFor(m, "D") # <<>> -> <<"Dtmp">>
      [] m.pc \in DocLabels -> <<m.loc.name, DocOrder[DocIndex(m.pc)]>>
      [] m.pc = "n_ptmp" -> <<"ptrTmp">>
      [] m.pc = "n_c_ptr" /\ m.loc.previous # "" -> <<"ptr">>
      [] m.pc = "n_gi_w" /\ Calls(m) -> <<"giTmp">>
      [] OTHER -> <<>>

\* What a writeFileSync cut short leaves of the text it was writing: the
\* file truncated to nothing, or the first half of the text.
PartialTexts(t) == {<<>>, SubSeq(t, 1, Len(t) \div 2)}

\* The process is killed between two filesystem calls.
Kill ==
    /\ pc # "done"
    /\ faults < MaxFaults
    /\ pc' = "done"
    /\ loc' = Killed(loc)
    /\ faults' = faults + 1
    /\ UNCHANGED <<fs, closed, pre, writes, origGi>>

\* The process is killed inside a writeFileSync: the file it was writing
\* exists with part of the text.
KillMidWrite ==
    /\ pc # "done"
    /\ faults < MaxFaults
    /\ WriteTarget(Machine) # <<>>
    /\ LET w    == WriteTarget(Machine)
           full == Step(Machine, FALSE).fs
           text == IF Len(w) = 1 THEN full[w[1]].txt ELSE full.dirs[w[1]].files[w[2]].txt
       IN  \E t \in PartialTexts(text) :
              fs' = IF Len(w) = 1 THEN [fs EXCEPT ![w[1]] = File(t)]
                    ELSE [fs EXCEPT !.dirs[w[1]].files[w[2]] = File(t)]
    /\ pc' = "done"
    /\ loc' = Killed(loc)
    /\ faults' = faults + 1
    /\ UNCHANGED <<closed, pre, writes, origGi>>

NextCrash ==
    \/ Begin
    \/ StepOk
    \/ StepThrow
    \/ Kill
    \/ KillMidWrite

SpecCrash == Init /\ [][NextCrash]_vars

(***************************************************************************)
(* Invocations that run without a failing call but can be killed between   *)
(* two filesystem calls                                                    *)
(***************************************************************************)
NextKill ==
    \/ Begin
    \/ StepOk
    \/ Kill

SpecKill == Init /\ [][NextKill]_vars

(***************************************************************************)
(* Whole invocations on a plans root whose pointer file was damaged from   *)
(* outside                                                                 *)
(***************************************************************************)
\* Pointer texts that name no existing plan directory: empty, blank, or the
\* name of a directory that is not there.
DamagedPointers(f) == {<<>>, <<NL>>} \cup {<<p>> : p \in PlanNames \ planEntries(f)}

DamagePointer ==
    /\ pc = "done"
    /\ fs.root
    /\ \E t \in DamagedPointers(fs) : fs' = [fs EXCEPT !.ptr = File(t)]
    /\ loc' = IdleLoc
    /\ pre' = fs'
    /\ UNCHANGED <<pc, closed, writes, faults, origGi>>

NextHeal ==
    \/ New
    \/ NewForce
    \/ Resume
    \/ Status
    \/ Close
    \/ List
    \/ DamagePointer

SpecHeal == Init /\ [][NextHeal]_vars

(***************************************************************************)
(* Whole invocations on plans whose state.md and plan.md the caller has    *)
(* rewritten, emptied or removed, with the pointer possibly damaged        *)
(***************************************************************************)
\* state.md as the caller can leave it: removed, empty, a label with nothing
\* after it, a label whose value is on no line of its own, and a well-formed
\* file in another phase.
StateChoices ==
    { NoFile,
      File(<<>>),
      File(StateLabel \o <<SP, NL>>),
      File(StateLabel \o <<NL>> \o IterationLabel \o <<SP, "3", NL>>),
      File(StateLabel \o <<SP, "EXECUTE", SP, NL>> \o IterationLabel \o <<SP, "2", NL>>
           \o StepLabel \o <<SP, "4", NL>> \o TransitionLabel \o <<SP, "PLAN -> EXECUTE", NL>>) }

LongGoal == "Migrate every service of the platform to the new authentication gateway"

\* plan.md as the caller can leave it: removed, empty, the Goal heading with
\* nothing under it, an empty Goal section before the next heading, and a
\* goal of two lines whose first is longer than the status line shows.
PlanChoices ==
    { NoFile,
      File(<<>>),
      File(<<"#", SP, "Plan v1">> \o GoalLabel \o <<NL>>),
      File(<<"#", SP, "Plan v1">> \o GoalLabel \o <<NL, NL>> \o H2 \o <<"Steps", NL>>),
      File(<<"#", SP, "Plan v1">> \o GoalLabel \o <<SP, NL, LongGoal, SP, "now", NL, "second line", NL>>
           \o H2 \o <<"Steps", NL>>) }

\* The caller rewrites, empties or removes state.md or plan.md of a plan.
CallerEdits ==
    /\ pc = "done"
    /\ writes < MaxWrites
    /\ \E p \in planEntries(fs) :
          \/ \E c \in StateChoices : fs' = [fs EXCEPT !.dirs[p].files["state.md"] = c]
          \/ \E c \in PlanChoices : fs' = [fs EXCEPT !.dirs[p].files["plan.md"] = c]
    /\ writes' = writes + 1
    /\ loc' = IdleLoc
    /\ pre' = fs'
    /\ UNCHANGED <<pc, closed, faults, origGi>>

\* The pointer file is damaged from outside, counted among the caller's
\* writes.
CallerDamagesPointer ==
    /\ pc = "done"
    /\ writes < MaxWrites
    /\ fs.root
    /\ \E t \in DamagedPointers(fs) : fs' = [fs EXCEPT !.ptr = File(t)]
    /\ writes' = writes + 1
    /\ loc' = IdleLoc
    /\ pre' = fs'
    /\ UNCHANGED <<pc, closed, faults, origGi>>

\* The caller creates plans/ with nothing in it.
CallerMakesRoot ==
    /\ pc = "done"
    /\ ~fs.root
    /\ fs' = [fs EXCEPT !.root = TRUE]
    /\ loc' = IdleLoc
    /\ pre' = fs'
    /\ UNCHANGED <<pc, closed, writes, faults, origGi>>

NextDiag ==
    \/ CallerMakesRoot
    \/ New
    \/ NewForce
    \/ Close
    \/ Resume
    \/ Status
    \/ List
    \/ CallerDamagesPointer
    \/ CallerEdits

SpecDiag == Init /\ [][NextDiag]_vars

(***************************************************************************)
(* Whole invocations in a working directory that already has a .gitignore  *)
(***************************************************************************)
\* The .gitignore found in the working directory: none, an empty one, other
\* patterns with and without a final newline, the plans pattern alone, the
\* pattern padded with blanks among other lines, and a comment naming it.
GitignoreChoices ==
    { NoFile,
      File(<<>>),
      File(<<"node_modules/", NL>>),
      File(<<"node_modules/", NL, "dist/">>),
      File(<<IgnorePattern, NL>>),
      File(<<"node_modules/", NL, SP, IgnorePattern, SP, NL, "dist/", NL>>),
      File(<<"#", SP, IgnorePattern, NL>>) }

InitIgnore ==
    /\ \E g \in GitignoreChoices : fs = EmptyFs(g)
    /\ pc = "done"
    /\ loc = IdleLoc
    /\ closed = <<>>
    /\ pre = fs
    /\ writes = 0
    /\ faults = 0
    /\ origGi = fs.gi

NextIgnore ==
    \/ New
    \/ NewForce
    \/ LegacyNew
    \/ Close

SpecIgnore == InitIgnore /\ [][NextIgnore]_vars

(***************************************************************************)
(* Whole invocations on plans in whose decisions.md or findings.md the     *)
(* cross-plan note stands at other places than where cmdNew put it         *)
(***************************************************************************)
\* Documents with the note: alone with no line end, last with no line end
\* after it, inside a line, twice on following lines, and before the first
\* heading.
NoteDocs ==
    { <<NoteText>>,
      <<"#", SP, "Findings", NL, "kept", NL, NoteText>>,
      <<"#", "#", SP, "A", NL, "see", SP, NoteText, SP, "above", NL>>,
      <<"#", "#", SP, "A", NL, NoteText, NL, NoteText, NL, "#", "#", SP, "B", NL>>,
      <<NoteText, NL, "#", "#", SP, "A", NL, "kept", NL>> }

\* The caller writes a document holding the note into the active plan.
CallerWritesNote ==
    /\ pc = "done"
    /\ writes < MaxWrites
    /\ readPointer(fs) # ""
    /\ \E doc \in CallerDocs : \E t \in NoteDocs :
          fs' = [fs EXCEPT !.dirs[readPointer(fs)].files[doc] = File(t)]
    /\ writes' = writes + 1
    /\ loc' = IdleLoc
    /\ pre' = fs'
    /\ UNCHANGED <<pc, closed, faults, origGi>>

NextMerge ==
    \/ New
    \/ NewForce
    \/ Close
    \/ CallerWrite
    \/ CallerWritesNote

SpecMerge == Init /\ [][NextMerge]_vars

(***************************************************************************)
(* Whole invocations of every command, the read-only ones included, on a   *)
(* working directory with or without plans/, with a pointer possibly       *)
(* damaged, and with goals short and long                                  *)
(***************************************************************************)
\* new with a goal longer than the status line shows.
NewLongGoal ==
    /\ pc = "done"
    /\ \E name \in FreshNames : Invoke("new", FALSE, LongGoal, name)

NextRead ==
    \/ New
    \/ NewLongGoal
    \/ Close
    \/ CallerDamagesPointer
    \/ Resume
    \/ Status
    \/ List
    \/ Help
    \/ NoArgs
    \/ BadFlag

SpecRead == Init /\ [][NextRead]_vars

(***************************************************************************)
(* Vocabulary of the claims                                                *)
(***************************************************************************)
Archives == {"F", "D"}

DocOf(a) == IF a = "F" THEN "findings.md" ELSE "decisions.md"

\* The heading line prependToConsolidated writes for plan p.
SectionHeading(p) == <<NL>> \o H2 \o <<p, NL>>

\* Where plan p's section starts in archive a, 0 when it has none.
SectionPos(a, p) == IF fs[a].ex THEN indexOf(fs[a].txt, SectionHeading(p)) ELSE 0

\* t is the end of s.
IsSuffix(t, s) == Len(t) <= Len(s) /\ SubSeq(s, Len(s) - Len(t) + 1, Len(s)) = t

\* The last invocation has exited and it was cmd.
Ran(cmd) == pc = "done" /\ loc.cmd = cmd

\* The last invocation has exited and it was new without --force, in the
\* subcommand form or the legacy form.
RanPlainNew == pc = "done" /\ loc.cmd \in {"new"} \cup Goals /\ ~loc.force

\* The last invocation has exited and it ran the close procedure on a plan
\* (close, or the close inside new --force).
RanClose == pc = "done" /\ loc.target # ""

\* C1: plans closed one after another have their sections newest-first in
\* each archive: a plan closed later stands before every plan closed earlier.
C1_NewestFirst ==
    \A a \in Archives : \A i \in 1..Len(closed) : \A j \in 1..Len(closed) :
        (i < j /\ SectionPos(a, closed[i]) > 0 /\ SectionPos(a, closed[j]) > 0)
            => SectionPos(a, closed[j]) < SectionPos(a, closed[i])

C1_Witness ==
    /\ Len(closed) = 2
    /\ closed[1] # closed[2]
    /\ \A a \in Archives : SectionPos(a, closed[1]) > 0 /\ SectionPos(a, closed[2]) > 0

\* C2: a close keeps, character for character, the archive text that stood
\* from the first plan-section heading onward: it is the end of the archive
\* after the close.
C2_OldSectionsKept ==
    RanClose =>
        \A a \in Archives :
            (pre[a].ex /\ includes(pre[a].txt, <<NL>> \o H2))
                => /\ fs[a].ex
                   /\ IsSuffix(sliceFrom(pre[a].txt, indexOf(pre[a].txt, <<NL>> \o H2)), fs[a].txt)

C2_Witness ==
    /\ RanClose
    /\ \A a \in Archives :
          /\ pre[a].ex /\ includes(pre[a].txt, <<NL>> \o H2)
          /\ Len(fs[a].txt) > Len(pre[a].txt)

\* C3: new without --force while a plan is active exits 1 and leaves every
\* file as it was.
C3_NewRefused ==
    (RanPlainNew /\ readPointer(pre) # "")
        => /\ loc.exit = 1
           /\ fs = pre
           /\ readPointer(fs) = readPointer(pre)

C3_Witness ==
    /\ RanPlainNew /\ readPointer(pre) # ""
    /\ loc.exit = 1
    /\ FreshNames # {}

\* C4: close leaves the closed plan's directory and every file in it as
\* they were; it changes only the pointer, which it removes, and the two
\* archives.
C4_CloseKeepsPlan ==
    (Ran("close") /\ loc.exit = 0)
        => /\ fs.dirs = pre.dirs
           /\ fs.dirs[loc.target].ex
           /\ ~fs.ptr.ex
           /\ [fs EXCEPT !.ptr = pre.ptr, !.F = pre.F, !.D = pre.D] = pre

C4_Witness ==
    /\ Ran("close") /\ loc.exit = 0
    /\ fs.F # pre.F
    /\ fs.D # pre.D
    /\ pre.ptr.ex

C6_PointerNeverPartial ==
    fs.ptr.ex => \E p \in PlanNames : fs.ptr.txt = <<p>>

\* The pointer file of f exists and names no existing plan directory.
Damaged(f) == f.ptr.ex /\ f.ptr.txt \in DamagedPointers(f)

\* What C7 compares of an invocation that has exited.
Outcome(m) ==
    [exit |-> m.loc.exit, active |-> readPointer(m.fs), dirs |-> m.fs.dirs,
     F |-> m.fs.F, D |-> m.fs.D]

\* C7: a command run with the pointer file empty, blank or naming a missing
\* directory ends with the exit code, active plan, plan directories and
\* archives it ends with when run on the same files with no pointer file.
C7_SelfHealing ==
    (pc = "done" /\ loc.cmd # "none" /\ Damaged(pre))
        => Outcome(Machine)
             = Outcome(Run(StartFrom([pre EXCEPT !.ptr = NoFile],
                                     loc.cmd, loc.force, loc.goal, loc.name)))

C7_Witness ==
    /\ Ran("new") /\ Damaged(pre) /\ loc.exit = 0
    /\ \E p \in PlanNames : pre.ptr.txt = <<p>>
    /\ planEntries(pre) # {}
    /\ readPointer(fs) = loc.name

\* C8: every line of an archive that starts with "## " is a plan-section
\* heading: the name of a plan directory follows, then the end of the line.
C8_OnlyPlanHeadings ==
    \A a \in Archives : \A i \in 1..Len(fs[a].txt) :
        (LineStart(fs[a].txt, i) /\ MatchAt(fs[a].txt, i, H2))
            => /\ i + 4 <= Len(fs[a].txt)
               /\ fs[a].txt[i + 3] \in planEntries(fs)
               /\ fs[a].txt[i + 4] = NL

\* C9: a close adds no section to an archive for a document that has no
\* second-level heading (nothing from such a heading onward).
C9_NoHeadingNoSection ==
    RanClose =>
        \A a \in Archives :
            LET doc == pre.dirs[loc.target].files[DocOf(a)]
            IN  (~doc.ex \/ searchH2(doc.txt) = 0) => SectionPos(a, loc.target) = 0

\* C10: after a close neither archive holds a link "(findings/..." without
\* the plan directory's name before it.
C10_NoBareFindingsLink ==
    RanClose =>
        \A a \in Archives : ~includes(fs[a].txt, <<"(", "findings/">>)

\* The line of content that starts at position i.
lineAt(content, i) ==
    LET ends == {e \in i..Len(content) : content[e] = NL}
    IN  SubSeq(content, i, IF ends = {} THEN Len(content) ELSE Min(ends) - 1)

\* The number of lines of content that are the pattern p once trimmed.
countLines(content, p) ==
    Cardinality({i \in 1..Len(content) : LineStart(content, i) /\ trim(lineAt(content, i)) = <<p>>})

IsPrefix(t, s) == Len(t) <= Len(s) /\ SubSeq(s, 1, Len(t)) = t

\* The last invocation has exited and it was new, new --force or the legacy
\* form, and it created its plan.
RanNewOk == pc = "done" /\ loc.cmd \in {"new"} \cup Goals /\ loc.exit = 0

\* C11: from a .gitignore that is absent or has the plans pattern at most
\* once, new/close cycles keep the original content as the beginning of the
\* file and never have the pattern twice; once a new has succeeded the file
\* has the pattern exactly once; a new that finds the pattern writes nothing
\* to the file.
C11_IgnoreIdempotent ==
    /\ IsPrefix(origGi.txt, fs.gi.txt)
    /\ fs.gi.ex \/ ~origGi.ex
    /\ countLines(fs.gi.txt, IgnorePattern) <= 1
    /\ planEntries(fs) # {} => fs.gi.ex /\ countLines(fs.gi.txt, IgnorePattern) = 1
    /\ RanNewOk => fs.gi.ex /\ countLines(fs.gi.txt, IgnorePattern) = 1
    /\ (RanNewOk /\ countLines(pre.gi.txt, IgnorePattern) = 1)
            => ~loc.ignoreWritten /\ fs.gi = pre.gi /\ fs.giTmp = pre.giTmp

C11_Witness ==
    /\ RanNewOk
    /\ Len(closed) >= 1
    /\ origGi.ex /\ origGi.txt # <<>>
    /\ origGi.txt[Len(origGi.txt)] # NL
    /\ fs.gi.txt = origGi.txt \o <<NL, IgnorePattern, NL>>

\* The plan directory cmdNew creates: both subdirectories and the six
\* documents with their templates.
NewPlanDir(goal, note) ==
    [ex |-> TRUE, checkpoints |-> TRUE, findings |-> TRUE,
     files |-> [d \in DocNames |-> File(TemplateOf(d, goal, note))]]

\* C12: a new whose only failure is the .gitignore update exits 0 with a
\* warning, the new plan directory complete on disk and the pointer naming it.
C12_IgnoreFailureKeepsPlan ==
    (Ran("new") /\ "gitignore failed" \in loc.warn)
        => /\ loc.exit = 0
           /\ fs.dirs[loc.name] = NewPlanDir(loc.goal, loc.note)
           /\ fs.ptr = File(<<loc.name>>)
           /\ readPointer(fs) = loc.name
           /\ ~fs.ptrTmp.ex

C12_Witness ==
    /\ Ran("new") /\ loc.warn = {"gitignore failed"}
    /\ faults = 1
    /\ ~hasLine(fs.gi.txt, IgnorePattern)
    /\ readPointer(fs) = loc.name

\* The last invocation has exited and it was a new without --force one of
\* whose creation steps threw.
PlainNewFailed == Ran("new") /\ ~loc.force /\ loc.err # ""

\* C13 as stated: after a new without --force one of whose creation steps
\* failed, the exit code is not 0, the new plan directory and the temporary
\* pointer file do not exist, and the pointer does not name the failed plan.
C13_FailedNewLeavesNothing ==
    PlainNewFailed
        => /\ loc.exit # 0
           /\ ~fs.dirs[loc.name].ex
           /\ ~fs.ptrTmp.ex
           /\ readPointer(fs) # loc.name

\* C13 amended: the same, except that the directory stays when its removal
\* failed and the temporary pointer file stays when its removal failed, each
\* with a warning.
C13_CleansUpUnlessCleanupFails ==
    PlainNewFailed
        => /\ loc.exit = 1
           /\ ~fs.dirs[loc.name].ex \/ "cleanup dir failed" \in loc.warn
           /\ ~fs.ptrTmp.ex \/ "cleanup tmp failed" \in loc.warn
           /\ readPointer(fs) # loc.name
           /\ fs.ptr # File(<<loc.name>>)

C13_Witness ==
    /\ PlainNewFailed
    /\ loc.err = "n_pren"
    /\ loc.warn = {}
    /\ pre.dirs[loc.name] = NoDir /\ fs.dirs[loc.name] = NoDir
    /\ ~fs.ptrTmp.ex

\* C14: close and resume exit with a code other than 0 exactly when no plan
\* is active, and then every file is as it was before.
C14_StrictWithoutPlan ==
    (Ran("close") \/ Ran("resume"))
        => /\ loc.exit # 0 <=> readPointer(pre) = ""
           /\ readPointer(pre) = "" => loc.exit = 1 /\ fs = pre

C14_Witness ==
    /\ Ran("close")
    /\ loc.exit = 1
    /\ Damaged(pre)
    /\ planEntries(pre) # {}
    /\ pre.F.ex /\ pre.D.ex

\* close run on the files f, then new goal run on what it leaves, creating
\* the directory name.
CloseThenNew(f, goal, name) ==
    Run(StartFrom(Run(StartFrom(f, "close", FALSE, "", "")).fs, "new", FALSE, goal, name))

\* C15: new --force with a plan active ends with the files and exit code of
\* close followed by new: the old plan's directory untouched, its section in
\* the archives, the pointer naming the new plan.  With no plan active it
\* ends with the files and exit code of new.
C15_ForceIsCloseThenNew ==
    (Ran("new") /\ loc.force)
        => IF readPointer(pre) # ""
           THEN LET both == CloseThenNew(pre, loc.goal, loc.name)
                IN  /\ fs = both.fs
                    /\ loc.exit = both.loc.exit
                    /\ fs.dirs[readPointer(pre)] = pre.dirs[readPointer(pre)]
                    /\ readPointer(fs) = loc.name
                    /\ loc.exit = 0
           ELSE LET plain == Run(StartFrom(pre, "new", FALSE, loc.goal, loc.name))
                IN  /\ fs = plain.fs
                    /\ loc.exit = plain.loc.exit

C15_Witness ==
    /\ Ran("new") /\ loc.force
    /\ readPointer(pre) # ""
    /\ pre.dirs[readPointer(pre)].files["decisions.md"].txt
           # DecisionsTemplate(FALSE)
    /\ \A a \in Archives : SectionPos(a, readPointer(pre)) > 0
    /\ readPointer(fs) = loc.name

\* The plans a new has created successfully: the active one when the
\* invocation started and the ones closed so far.
createdPlans == {closed[i] : i \in 1..Len(closed)} \cup ({readPointer(pre)} \ {""})

\* C16: an invocation leaves every successfully created plan directory that
\* existed when it started on disk and as it was, documents included; so the
\* directory a new creates, or removes in its cleanup, is never one of them.
C16_PlansNeverLost ==
    \A p \in createdPlans : pre.dirs[p].ex => fs.dirs[p] = pre.dirs[p]

closedPlans == {closed[i] : i \in 1..Len(closed)}

\* C17: list shows every plan directory once, in ascending order of name,
\* with their number as the total, and marks as active the directory the
\* valid pointer names and no other: none without an active plan, never a
\* closed plan.
C17_ListMarksActive ==
    (Ran("list") /\ pre.root /\ planEntries(pre) # {})
        => LET rows == loc.out.rows
           IN  /\ loc.out.count = Cardinality(planEntries(pre))
               /\ Len(rows) = loc.out.count
               /\ {rows[i].name : i \in 1..Len(rows)} = planEntries(pre)
               /\ \A i \in 1..Len(rows) : \A j \in 1..Len(rows) :
                      i < j => lexLess(rows[i].name, rows[j].name)
               /\ \A i \in 1..Len(rows) :
                      /\ rows[i].active <=> rows[i].name = readPointer(pre)
                      /\ rows[i].name \in closedPlans => ~rows[i].active
               /\ readPointer(pre) = "" => \A i \in 1..Len(rows) : ~rows[i].active

C17_Witness ==
    /\ Ran("list")
    /\ Len(loc.out.rows) = 2
    /\ loc.out.rows[1].name \in closedPlans /\ ~loc.out.rows[1].active
    /\ loc.out.rows[2].active

\* C18: status and list exit 0 in every state and change no file; without
\* an active plan status prints its one message, and list prints a message
\* when there is no plans root or no plan directory.
C18_DiagnosticsExitZero ==
    (Ran("status") \/ Ran("list"))
        => /\ loc.exit = 0
           /\ fs = pre
           /\ (Ran("status") /\ readPointer(pre) = "")
                  => loc.out = [NoOut EXCEPT !.msg = "No active plan."]
           /\ (Ran("list") /\ ~pre.root)
                  => loc.out = [NoOut EXCEPT !.msg = "No plans/ directory found."]
           /\ (Ran("list") /\ pre.root /\ planEntries(pre) = {})
                  => loc.out = [NoOut EXCEPT !.msg = "No plan directories found."]

C18_Witness ==
    /\ Ran("status")
    /\ Damaged(pre)
    /\ planEntries(pre) # {}
    /\ loc.exit = 0

\* The document gives no value for the field: it is missing, or has no
\* label at a line start, or the rest of the first label's line is blank.
noValue(doc, label) ==
    LET hits == {i \in 1..Len(doc.txt) : LineStart(doc.txt, i) /\ MatchAt(doc.txt, i, label)}
    IN  \/ ~doc.ex
        \/ hits = {}
        \/ trim(lineAt(doc.txt, Min(hits) + Len(label))) = <<>>

\* plan.md gives no goal: it is missing, or has no Goal heading, or nothing
\* but whitespace stands between the first one and the next "## " heading.
noGoal(doc) ==
    LET hits == {i \in 1..Len(doc.txt) : MatchAt(doc.txt, i, GoalLabel)}
        from == Min(hits) + Len(GoalLabel)
        next == {e \in from..Len(doc.txt) : MatchAt(doc.txt, e, <<NL>> \o H2)}
    IN  \/ ~doc.ex
        \/ hits = {}
        \/ trim(SubSeq(doc.txt, from, IF next = {} THEN Len(doc.txt) ELSE Min(next) - 1)) = <<>>

\* The placeholders of the command cmd for state, iteration, step, last
\* transition and goal; <<>> for a field the command does not print.
Placeholders(cmd) ==
    CASE cmd = "resume" -> [state |-> <<"UNKNOWN">>, iteration |-> <<"?">>, step |-> <<"N/A">>,
                            last |-> <<"?">>, goal |-> <<"No goal found">>]
      [] cmd = "status" -> [state |-> <<"UNKNOWN">>, iteration |-> <<"?">>, step |-> <<"N/A">>,
                            last |-> <<>>, goal |-> <<"?">>]
      [] cmd = "list"   -> [state |-> <<"?">>, iteration |-> <<>>, step |-> <<>>,
                            last |-> <<>>, goal |-> <<"?">>]

FieldLabels ==
    [state |-> StateLabel, iteration |-> IterationLabel, step |-> StepLabel, last |-> TransitionLabel]

\* C19: resume, status and list end with their normal exit code whatever
\* state.md and plan.md hold; every field they print is non-empty, and is
\* the command's placeholder when the document is missing or empty or gives
\* no value for the field.
C19_PlaceholdersNotErrors ==
    (Ran("resume") \/ Ran("status") \/ Ran("list"))
        => /\ loc.exit = IF loc.cmd = "resume" /\ readPointer(pre) = "" THEN 1 ELSE 0
           /\ \A i \in 1..Len(loc.out.rows) :
                 LET row   == loc.out.rows[i]
                     state == pre.dirs[row.name].files["state.md"]
                     plan  == pre.dirs[row.name].files["plan.md"]
                     ph    == Placeholders(loc.cmd)
                 IN  /\ \A f \in DOMAIN FieldLabels :
                            /\ ph[f] # <<>> => row[f] # <<>>
                            /\ noValue(state, FieldLabels[f]) => row[f] = ph[f]
                     /\ row.goal # <<>>
                     /\ \A k \in 1..Len(row.goal) : row.goal[k] # NL
                     /\ noGoal(plan) => row.goal = ph.goal

\* The number of times the cross-plan note stands in the document.
noteCount(doc) == Cardinality({i \in 1..Len(doc.txt) : doc.txt[i] = NoteText})

\* C20: the decisions.md and findings.md of a plan just created hold the
\* cross-plan note, once, exactly when FINDINGS.md or DECISIONS.md existed
\* before the new was invoked: not in the first plan of a fresh plans root,
\* and in every plan created while another plan directory exists.
C20_NoteIffArchives ==
    RanNewOk
        => LET docs == fs.dirs[loc.name].files
               want == IF pre.F.ex \/ pre.D.ex THEN 1 ELSE 0
           IN  /\ noteCount(docs["decisions.md"]) = want
               /\ noteCount(docs["findings.md"]) = want
               /\ ~pre.root => want = 0
               /\ planEntries(pre) # {} => want = 1

C20_Witness ==
    /\ RanNewOk
    /\ planEntries(pre) # {}
    /\ noteCount(fs.dirs[loc.name].files["decisions.md"]) = 1
    /\ noteCount(fs.dirs[loc.name].files["findings.md"]) = 1
    /\ \E p \in planEntries(pre) : noteCount(fs.dirs[p].files["findings.md"]) = 0

\* C21: no archive ever holds the cross-plan note: the section a close
\* merges for a plan is free of it, wherever the note stood in the plan's
\* decisions.md or findings.md.
C21_NoteNeverArchived ==
    \A a \in Archives : \A i \in 1..Len(fs[a].txt) : fs[a].txt[i] # NoteText

C21_Witness ==
    /\ RanClose
    /\ \A a \in Archives :
          /\ noteCount(pre.dirs[loc.target].files[DocOf(a)]) >= 1
          /\ SectionPos(a, loc.target) > 0
    /\ \E a \in Archives :
          LET d == pre.dirs[loc.target].files[DocOf(a)].txt
          IN  searchH2(d) > 0 /\ indexOf(d, <<NoteText>>) > searchH2(d)

\* C22: after a new that created its plan, and after a close that exited 0
\* without the merge-failed warning, both archives exist.  An archive that
\* did not exist before starts with its header and is the header alone when
\* no section was merged into it; an archive that existed is as it was after
\* a new without a close, and otherwise still starts with its old header and
\* ends with its old sections.
C22_ArchivesEnsured ==
    (RanNewOk \/ (Ran("close") /\ loc.exit = 0 /\ "merge failed" \notin loc.warn))
        => \A a \in Archives :
              LET header == IF a = "F" THEN FindingsHeader ELSE DecisionsHeader
                  old    == pre[a].txt
                  cut    == indexOf(old, <<NL>> \o H2)
                  head   == IF cut >= 1 THEN sliceBefore(old, cut) ELSE trimEnd(old)
                  body   == IF cut >= 1 THEN sliceFrom(old, cut) ELSE <<>>
              IN  /\ fs[a].ex
                  /\ ~pre[a].ex => /\ IsPrefix(trimEnd(header), fs[a].txt)
                                   /\ SectionPos(a, loc.target) = 0 => fs[a] = File(header)
                  /\ pre[a].ex => /\ IsPrefix(head, fs[a].txt) /\ IsSuffix(body, fs[a].txt)
                                  /\ loc.target = "" => fs[a] = pre[a]

C22_Witness ==
    /\ RanNewOk
    /\ loc.target = ""
    /\ faults > 0
    /\ \A a \in Archives : pre[a].ex /\ includes(pre[a].txt, <<NL>> \o H2) /\ fs[a] = pre[a]

\* C23: an invocation whose first argument starts with "-" and is no
\* subcommand exits non-zero and leaves everything as it was: plans/, the
\* plan directories, the pointer, the archives and .gitignore.
C23_UnknownFlagNoEffect ==
    Ran(UnknownFlag) => loc.exit # 0 /\ fs = pre

C23_Witness ==
    /\ Ran(UnknownFlag)
    /\ loc.exit = 1
    /\ ~fs.root

C25_OrphansWarnedAndKept ==
    (pc = "done" /\ planEntries(fs) # {} /\ readPointer(fs) = "")
        => \A force \in BOOLEAN : \A goal \in Goals : \A name \in FreshNames :
              LET r == Run(StartFrom(fs, "new", force, goal, name))
              IN  /\ "orphans" \in r.loc.warn
                  /\ r.loc.exit = 0
                  /\ readPointer(r.fs) = name
                  /\ \A p \in planEntries(fs) : r.fs.dirs[p] = fs.dirs[p]

C25_Witness ==
    /\ RanNewOk
    /\ loc.warn = {"orphans"}
    /\ readPointer(fs) = loc.name
    /\ \E p \in planEntries(pre) :
          /\ \E d \in DocNames : ~pre.dirs[p].files[d].ex
          /\ fs.dirs[p] = pre.dirs[p]

\* C26: at every point of a close of plan P (the close command or the close
\* inside new --force), running, ended or killed between two filesystem
\* calls, and with no call failing: once the pointer no longer names P,
\* every section P's documents give is in its archive.  And when the close
\* comes to remove the pointer and the file is already gone (the unlink
\* throws), it ends as it does when the unlink succeeds.
C26_MergedBeforeDeactivated ==
    /\ (loc.target # "" /\ readPointer(fs) # loc.target)
          => \A a \in Archives :
                SectionFor(Machine, a) # <<>> => SectionPos(a, loc.target) > 0
    /\ pc = "c_unlink"
          => Step([Machine EXCEPT !.fs.ptr = NoFile], TRUE) = Step(Machine, FALSE)

C26_Witness ==
    /\ pc = "done"
    /\ loc.exit = Killed(loc).exit
    /\ loc.target # ""
    /\ ~fs.ptr.ex
    /\ pre.ptr.ex
    /\ \A a \in Archives : SectionFor(Machine, a) # <<>> /\ SectionPos(a, loc.target) > 0

\* C27: in every state, whatever invocation is running or was killed between
\* two filesystem calls: when the pointer file names plan P, P's directory
\* exists with its two subdirectories and all six documents, and both
\* archives exist.
C27_PointerWrittenLast ==
    \A p \in PlanNames :
        readPointerUnchecked(fs) = p
            => /\ fs.dirs[p].ex /\ fs.dirs[p].checkpoints /\ fs.dirs[p].findings
               /\ \A d \in DocNames : fs.dirs[p].files[d].ex
               /\ fs.F.ex /\ fs.D.ex

C27_Witness ==
    /\ pc = "done"
    /\ loc.cmd = "new"
    /\ loc.exit = Killed(loc).exit
    /\ readPointerUnchecked(fs) = loc.name
    /\ ~fs.gi.ex
    /\ \E p \in PlanNames \ {loc.name} : fs.dirs[p].ex /\ ~fs.dirs[p].files["verification.md"].ex

\* C28: in every state each archive holds at most one section heading per
\* plan directory: no plan is merged twice.
C28_OneSectionPerPlan ==
    \A a \in Archives : \A p \in PlanNames :
        Cardinality({i \in 1..Len(fs[a].txt) : MatchAt(fs[a].txt, i, SectionHeading(p))}) <= 1

\* C29: status, resume, list, help and an invocation with no arguments leave
\* every file as it was: plans/, the pointer (a stale one too), the plan
\* directories, the archives and .gitignore.
C29_DiagnosticsReadOnly ==
    (pc = "done" /\ loc.cmd \in {"status", "resume", "list", "help", ""}) => fs = pre

C29_Witness ==
    /\ Ran("status")
    /\ Damaged(pre)
    /\ planEntries(pre) # {}
    /\ fs = pre

\* C30: a close of an active plan, whether or not its merge failed, exits 0
\* and leaves no active plan, with the plan directories and their documents
\* as they were; a failed merge shows only as a warning.
C30_ClosedEvenIfMergeFails ==
    (Ran("close") /\ readPointer(pre) # "")
        => /\ loc.exit = 0
           /\ readPointer(fs) = ""
           /\ fs.dirs = pre.dirs
           /\ loc.warn \subseteq {"merge failed"}

====
